---- MODULE Spec2Model ----
(***************************************************************************)
(* PTZ camera control and video ingest of the Jennov camera tools.         *)
(*                                                                         *)
(*   SpecCmd    the command dispatchers: JennovCameraUltra driven by the   *)
(*              GUI thread (camera_gui.py), or JennovCameraFast driven by  *)
(*              two caller threads; background sender threads; the         *)
(*              keep-alive loop.                                           *)
(*   SpecUltra  one JennovCameraUltra object, its keep-alive loop and an   *)
(*              owner that calls __del__.                                  *)
(*   SpecVel    direct callers of move_instant / move_fast with each of    *)
(*              the six directions and magnitudes from 0 to 1.             *)
(*   SpecSession   one connected JennovCameraUltra and all its dispatch    *)
(*              entry points.                                              *)
(*   SpecConnect   the GUI across connect / disconnect cycles and the      *)
(*              keep-alive loops of the dispatchers it constructed.        *)
(*   SpecVideo  one VideoThread instance (run loop), the caller thread     *)
(*              that starts/stops recording and stops the thread, and the  *)
(*              GUI slot that consumes emitted frames.                     *)
(*   SpecVideoLive   SpecVideo with the fairness of thread scheduling.     *)
(*                                                                         *)
(* Speeds are in tenths (5 stands for 0.5).  None is 0 for object          *)
(* references (camera, video_writer), object ids start at 1.               *)
(***************************************************************************)
EXTENDS Integers, Sequences, FiniteSets, TLC

\* ---------------------------------------------------------------- bounds
MaxCalls == 2
MaxConnects == 1
MaxFrames == 2
MaxSinks == 2
MaxCycles == 2

\* ------------------------------------------------------ program constants
max_failures == 30
InitPtzSpeed == 5
ZoomSpeed == 3
PresetSpeed == 10

\* ------------------------------------------------------------ input sets
Directions == {"left", "right", "up", "down", "zoom_in", "zoom_out"}
DirSample == {"left", "zoom_in"}
VelSample == {<<5, 0, 0>>, <<0, -5, 0>>}
PresetSample == {"1"}
MagSample == {0, 5, 10}
MoveSample == {<<5, 0, 0>>, <<0, 0, 3>>, <<0, 0, 0>>}
Callers == {1, 2}

VARIABLES
    impl,               \* "ultra" | "fast": the class behind JennovCamera
    \* GUI (CameraGUI)
    camera,             \* self.camera: 0 (None) or the dispatcher's id
    is_connected,
    video_thread,       \* self.video_thread is not None
    status,             \* what toggle_connection last reported
    ptz_speed,          \* self.ptz_speed (the slider is left at its initial value)
    gpc,                \* GUI thread: "idle" | "ret" (inside a handler, after its work)
    \* dispatcher objects, in construction order
    disp,
    \* dispatches: one record per call, in call order
    tickets,
    wire,               \* envelopes received by the device, in arrival order
    \* JennovCameraFast
    command_lock,       \* 0 or the caller holding it
    move_request,       \* the shared ContinuousMove request's Velocity
    \* VideoThread
    vpc,                \* position of run()
    cap,                \* "none" | "open" | "unopened" | "released"
    consecutive_failures,
    frame,              \* the frame cap.read() returned
    writing,            \* 0, or the writer whose write(frame) call run is inside
    captured,           \* frames read so far; frame n is the n-th read
    emitted,            \* frames passed to change_pixmap_signal.emit, in order
    displayed,          \* how many of them the update_image slot has handled
    gap,                \* history, for the frame in hand: "fails" when failed
                        \* reads came right before its read, else "none"
    run_flag, recording, video_writer,
    recording_filename, \* 0 (None) or a file name
    sinks,              \* the cv2.VideoWriter objects, in creation order
    \* the GUI thread calling start_recording / stop_recording / stop
    rpc, inStop,
    result              \* at rpc = "ret": what start_recording / stop_recording returns

cmdVars == <<impl, camera, is_connected, video_thread, status, ptz_speed, gpc,
             disp, tickets, wire, command_lock, move_request>>
videoVars == <<vpc, cap, consecutive_failures, frame, writing, captured, emitted, displayed,
               gap, run_flag, recording, video_writer, recording_filename, sinks,
               rpc, inStop, result>>
vars == <<cmdVars, videoVars>>

Last(s) == s[Len(s)]
NoVel == <<0, 0, 0>>

\* ------------------------------------------------------------ velocities
\* a table whose 'down' row has the sign of 'up'
velocitiesDownAsUp(d) ==
    CASE d = "left" -> <<-1, 0, 0>>
      [] d = "right" -> <<1, 0, 0>>
      [] d = "up" -> <<0, 1, 0>>
      [] d = "down" -> <<0, 1, 0>>
      [] d = "zoom_in" -> <<0, 0, 1>>
      [] d = "zoom_out" -> <<0, 0, -1>>

\* JennovCameraUltra.velocities: (PanTilt.x, PanTilt.y, Zoom.x) per direction
velocities(d) ==
    CASE d = "left" -> <<-1, 0, 0>>
      [] d = "right" -> <<1, 0, 0>>
      [] d = "up" -> <<0, 1, 0>>
      [] d = "down" -> <<0, -1, 0>>
      [] d = "zoom_in" -> <<0, 0, 1>>
      [] d = "zoom_out" -> <<0, 0, -1>>

\* move_instant: pan, tilt, zoom = table entry * speed
UltraVelocity(d, speed) ==
    <<velocities(d)[1] * speed, velocities(d)[2] * speed, velocities(d)[3] * speed>>

\* JennovCameraFast.velocities[d](speed)
FastVelocity(d, speed) ==
    CASE d = "left" -> <<-speed, 0, 0>>
      [] d = "right" -> <<speed, 0, 0>>
      [] d = "up" -> <<0, speed, 0>>
      [] d = "down" -> <<0, -speed, 0>>
      [] d = "zoom_in" -> <<0, 0, speed>>
      [] d = "zoom_out" -> <<0, 0, -speed>>

\* ------------------------------------------------------------ dispatches
\* kind: "move" | "stop" | "preset"; vel: the velocity of the call;
\* own: TRUE when the sender carries its own envelope (Ultra), FALSE when it
\* sends the shared move_request (Fast); by: 0 for a background thread, else
\* the caller blocked in a synchronous send; status: "pending" | "sent" |
\* "dropped" (send raised, caught) | "crashed" (send raised, not caught).
\* cam: the dispatcher object the call was made on (0: the Fast instance).
Ticket(kind, vel, own, by) ==
    [kind |-> kind, vel |-> vel, own |-> own, by |-> by, cam |-> camera,
     status |-> "pending", attempts |-> 0]

Pending(i) == tickets[i].status = "pending"
InFlight == {i \in 1..Len(tickets) : Pending(i) /\ tickets[i].by = 0}
Busy(c) == \E i \in 1..Len(tickets) : Pending(i) /\ tickets[i].by = c
Envelope(i) ==
    [kind |-> tickets[i].kind,
     vel |-> IF tickets[i].own THEN tickets[i].vel ELSE move_request]

\* Thread(target=...).start(): the caller hands the dispatch over
Spawn(kind, vel, own) == tickets' = Append(tickets, Ticket(kind, vel, own, 0))

\* outcome of one transport send: "ok"; "timeout" (the device got the
\* envelope, the response did not arrive in time); "lost" (reset before the
\* device got it)
Outcomes == {"ok", "timeout", "lost"}
Caught(o) == IF o = "ok" THEN "sent" ELSE "dropped"
Uncaught(o) == IF o = "ok" THEN "sent" ELSE "crashed"

Transmit(i, o) ==
    wire' = IF o = "lost" THEN wire ELSE Append(wire, Envelope(i))

Finish(i, st) ==
    tickets' = [tickets EXCEPT ![i].status = st, ![i].attempts = @ + 1]

\* ------------------------------------------------- JennovCameraUltra
\* __init__: what self.token, self.ptz_url, the two soap templates and the
\* velocities table hold once the constructor has run
SessionState ==
    [token |-> "profiles[0].token", ptz_url |-> "http://ip:port/onvif/PTZ",
     soap_move_template |-> "ContinuousMove{token}{pan}{tilt}{zoom}",
     soap_stop_template |-> "Stop{token}",
     velocities |-> [d \in Directions |-> velocities(d)]]

\* the attributes of an object whose constructor returned (ok) or raised
\* in GetDeviceInformation / GetProfiles before any of them was assigned
Attrs(ok) == [a \in DOMAIN SessionState |-> IF ok THEN SessionState[a] ELSE "unset"]

\* __init__ starting the keep-alive thread before the session is established
UltraInitThreadFirst(ok) ==
    disp' = Append(disp,
        [ok |-> ok, keep_alive_active |-> TRUE,
         session |-> IF ok THEN "open" ELSE "none",
         ka |-> "test", del |-> "no", late |-> 0] @@ Attrs(ok))

\* __init__: device info and profile token are resolved first; the HTTP
\* session and the keep-alive thread are created only after both succeeded.
\* ka: "none" | "test" (at the while test) | "sleep" (sleeping, then probing)
\* | "caught" (the probe raised: in the except branch) | "done" | "crashed";
\* del: position of __del__ ("no" | "closing" | "done"); late: history, the
\* probes issued after __del__ returned
UltraInit(ok) ==
    disp' = Append(disp,
        [ok |-> ok, keep_alive_active |-> ok,
         session |-> IF ok THEN "open" ELSE "none",
         ka |-> IF ok THEN "test" ELSE "none",
         del |-> "no", late |-> 0] @@ Attrs(ok))

\* _keep_alive: while self.keep_alive_active
KeepAliveTest(k) ==
    /\ impl = "ultra"
    /\ disp[k].ka = "test"
    /\ disp' = [disp EXCEPT ![k].ka = IF disp[k].keep_alive_active THEN "sleep" ELSE "done"]
    /\ UNCHANGED <<impl, camera, is_connected, video_thread, status, ptz_speed, gpc,
                   tickets, wire, command_lock, move_request, videoVars>>

\* a keep-alive loop that a failed probe ends
KeepAliveProbeRaise(k) ==
    /\ impl = "ultra"
    /\ disp[k].ka = "sleep"
    /\ \E o \in {"ok", "failed"} :
         disp' = [disp EXCEPT ![k].ka = IF o = "ok" THEN "test" ELSE "crashed",
                              ![k].late = IF disp[k].del = "done" THEN @ + 1 ELSE @]
    /\ UNCHANGED <<impl, camera, is_connected, video_thread, status, ptz_speed, gpc,
                   tickets, wire, command_lock, move_request, videoVars>>

\* _keep_alive: time.sleep(30); try: session.head(...).  The flag is not
\* looked at between the sleep and the probe; a closed requests.Session
\* still sends (it opens a new connection)
KeepAliveProbe(k) ==
    /\ impl = "ultra"
    /\ disp[k].ka = "sleep"
    /\ \E o \in {"ok", "failed"} :
         disp' = [disp EXCEPT ![k].ka = IF o = "ok" THEN "test" ELSE "caught",
                              ![k].late = IF disp[k].del = "done" THEN @ + 1 ELSE @]
    /\ UNCHANGED <<impl, camera, is_connected, video_thread, status, ptz_speed, gpc,
                   tickets, wire, command_lock, move_request, videoVars>>

\* _keep_alive: except: pass
KeepAliveCaught(k) ==
    /\ impl = "ultra"
    /\ disp[k].ka = "caught"
    /\ disp' = [disp EXCEPT ![k].ka = "test"]
    /\ UNCHANGED <<impl, camera, is_connected, video_thread, status, ptz_speed, gpc,
                   tickets, wire, command_lock, move_request, videoVars>>

\* __del__: self.keep_alive_active = False
DelFlag(k) ==
    /\ impl = "ultra"
    /\ disp[k].ok /\ disp[k].del = "no"
    /\ disp' = [disp EXCEPT ![k].keep_alive_active = FALSE, ![k].del = "closing"]
    /\ UNCHANGED <<impl, camera, is_connected, video_thread, status, ptz_speed, gpc,
                   tickets, wire, command_lock, move_request, videoVars>>

\* __del__: if hasattr(self, 'session'): self.session.close(); return
DelClose(k) ==
    /\ impl = "ultra"
    /\ disp[k].del = "closing"
    /\ disp' = [disp EXCEPT ![k].session = "closed", ![k].del = "done"]
    /\ UNCHANGED <<impl, camera, is_connected, video_thread, status, ptz_speed, gpc,
                   tickets, wire, command_lock, move_request, videoVars>>

move_instant(d, speed) == Spawn("move", UltraVelocity(d, speed), TRUE)
stop_instant == Spawn("stop", NoVel, TRUE)
goto_preset(speed) == Spawn("preset", <<speed, speed, speed>>, TRUE)

\* _send_raw posting again after a failed post
SendRawRetry(i) ==
    /\ impl = "ultra"
    /\ Pending(i) /\ tickets[i].kind \in {"move", "stop"} /\ tickets[i].attempts < 2
    /\ \E o \in Outcomes :
         /\ Transmit(i, o)
         /\ Finish(i, IF o = "ok" \/ tickets[i].attempts = 1 THEN Caught(o) ELSE "pending")
    /\ UNCHANGED <<impl, camera, is_connected, video_thread, status, ptz_speed, gpc,
                   disp, command_lock, move_request, videoVars>>

\* _send_raw: session.post in try/except: pass
SendRaw(i) ==
    /\ impl = "ultra"
    /\ Pending(i) /\ tickets[i].kind \in {"move", "stop"}
    /\ \E o \in Outcomes : Transmit(i, o) /\ Finish(i, Caught(o))
    /\ UNCHANGED <<impl, camera, is_connected, video_thread, status, ptz_speed, gpc,
                   disp, command_lock, move_request, videoVars>>

\* the goto_preset sender, Thread(target=lambda: self.ptz.GotoPreset(request)):
\* no try around the call (the same in both classes)
PresetSend(i) ==
    /\ Pending(i) /\ tickets[i].kind = "preset"
    /\ \E o \in Outcomes : Transmit(i, o) /\ Finish(i, Uncaught(o))
    /\ UNCHANGED <<impl, camera, is_connected, video_thread, status, ptz_speed, gpc,
                   disp, command_lock, move_request, videoVars>>

\* ------------------------------------------------------------ CameraGUI
\* toggle_connection: the constructor runs on the GUI thread; its exception
\* is caught and reported; the video thread is created and started after it;
\* limit bounds the dispatchers constructed in one run of the program
toggle_connection(limit) ==
    /\ impl = "ultra" /\ gpc = "idle"
    /\ IF ~is_connected
       THEN /\ Len(disp) < limit
            /\ \E ok \in BOOLEAN :
                 /\ UltraInit(ok)
                 /\ IF ok
                    THEN /\ camera' = Len(disp) + 1
                         /\ video_thread' = TRUE
                         /\ is_connected' = TRUE
                         /\ status' = "connected"
                    ELSE /\ status' = "failed"
                         /\ UNCHANGED <<camera, video_thread, is_connected>>
       ELSE /\ video_thread' = FALSE
            /\ camera' = 0
            /\ is_connected' = FALSE
            /\ status' = "disconnected"
            /\ UNCHANGED disp
    /\ UNCHANGED <<impl, ptz_speed, gpc, tickets, wire, command_lock, move_request,
                   videoVars>>

\* the Connect / Disconnect button, for at most MaxConnects constructions
ToggleConnection == toggle_connection(MaxConnects)

\* start_move: returns at once without a camera
StartMove(d) ==
    /\ impl = "ultra" /\ gpc = "idle"
    /\ camera # 0 => Len(tickets) < MaxCalls
    /\ IF camera = 0
       THEN UNCHANGED tickets
       ELSE move_instant(d, IF d \in {"zoom_in", "zoom_out"} THEN ZoomSpeed ELSE ptz_speed)
    /\ gpc' = "ret"
    /\ UNCHANGED <<impl, camera, is_connected, video_thread, status, ptz_speed,
                   disp, wire, command_lock, move_request, videoVars>>

\* stop_move
StopMove ==
    /\ impl = "ultra" /\ gpc = "idle"
    /\ camera # 0 => Len(tickets) < MaxCalls
    /\ IF camera = 0 THEN UNCHANGED tickets ELSE stop_instant
    /\ gpc' = "ret"
    /\ UNCHANGED <<impl, camera, is_connected, video_thread, status, ptz_speed,
                   disp, wire, command_lock, move_request, videoVars>>

\* CameraGUI.goto_preset
GotoPreset(p) ==
    /\ impl = "ultra" /\ gpc = "idle"
    /\ camera # 0 => Len(tickets) < MaxCalls
    /\ IF camera = 0
       THEN UNCHANGED tickets
       ELSE goto_preset(PresetSpeed)
    /\ gpc' = "ret"
    /\ UNCHANGED <<impl, camera, is_connected, video_thread, status, ptz_speed,
                   disp, wire, command_lock, move_request, videoVars>>

\* a handler that returns only once the senders it started have finished
GuiReturnAfterSend ==
    /\ gpc = "ret" /\ InFlight = {}
    /\ gpc' = "idle"
    /\ UNCHANGED <<impl, camera, is_connected, video_thread, status, ptz_speed,
                   disp, tickets, wire, command_lock, move_request, videoVars>>

\* move_instant / stop_instant / goto_preset return right after
\* Thread(...).start(); so does the handler
GuiReturn ==
    /\ gpc = "ret"
    /\ gpc' = "idle"
    /\ UNCHANGED <<impl, camera, is_connected, video_thread, status, ptz_speed,
                   disp, tickets, wire, command_lock, move_request, videoVars>>

\* -------------------------------------------------- JennovCameraFast
\* move: under command_lock, set the shared request and start the sender
FastMove(c, vel) ==
    /\ impl = "fast" /\ ~Busy(c) /\ Len(tickets) < MaxCalls
    /\ command_lock = 0
    /\ move_request' = vel
    /\ Spawn("move", vel, FALSE)
    /\ UNCHANGED <<impl, camera, is_connected, video_thread, status, ptz_speed, gpc,
                   disp, wire, command_lock, videoVars>>

\* _send_move_command: ptz.ContinuousMove(self.move_request) in try/except
SendMoveCommand(i) ==
    /\ impl = "fast"
    /\ Pending(i) /\ tickets[i].kind = "move" /\ tickets[i].by = 0
    /\ \E o \in Outcomes : Transmit(i, o) /\ Finish(i, Caught(o))
    /\ UNCHANGED <<impl, camera, is_connected, video_thread, status, ptz_speed, gpc,
                   disp, command_lock, move_request, videoVars>>

\* move_fast: take command_lock, set the shared request, then send on the
\* caller's thread with the lock held
FastMoveFast(c, d, speed) ==
    /\ impl = "fast" /\ ~Busy(c) /\ Len(tickets) < MaxCalls
    /\ command_lock = 0
    /\ command_lock' = c
    /\ move_request' = FastVelocity(d, speed)
    /\ tickets' = Append(tickets, Ticket("move", FastVelocity(d, speed), FALSE, c))
    /\ UNCHANGED <<impl, camera, is_connected, video_thread, status, ptz_speed, gpc,
                   disp, wire, videoVars>>

\* move_fast: the send returns or raises (caught); the lock is released
FastMoveFastSend(i) ==
    /\ impl = "fast"
    /\ Pending(i) /\ tickets[i].kind = "move" /\ tickets[i].by # 0
    /\ \E o \in Outcomes : Transmit(i, o) /\ Finish(i, Caught(o))
    /\ command_lock' = 0
    /\ UNCHANGED <<impl, camera, is_connected, video_thread, status, ptz_speed, gpc,
                   disp, move_request, videoVars>>

\* stop taking command_lock first, as move_fast does
FastStopLocked(c) ==
    /\ impl = "fast" /\ ~Busy(c) /\ Len(tickets) < MaxCalls
    /\ command_lock = 0
    /\ tickets' = Append(tickets, Ticket("stop", NoVel, TRUE, c))
    /\ UNCHANGED <<impl, camera, is_connected, video_thread, status, ptz_speed, gpc,
                   disp, wire, command_lock, move_request, videoVars>>

\* stop: "Don't use lock to allow immediate stop"; sends on the caller's thread
FastStop(c) ==
    /\ impl = "fast" /\ ~Busy(c) /\ Len(tickets) < MaxCalls
    /\ tickets' = Append(tickets, Ticket("stop", NoVel, TRUE, c))
    /\ UNCHANGED <<impl, camera, is_connected, video_thread, status, ptz_speed, gpc,
                   disp, wire, command_lock, move_request, videoVars>>

\* stop_async: Thread(target=self.stop).start()
FastStopAsync(c) ==
    /\ impl = "fast" /\ ~Busy(c) /\ Len(tickets) < MaxCalls
    /\ Spawn("stop", NoVel, TRUE)
    /\ UNCHANGED <<impl, camera, is_connected, video_thread, status, ptz_speed, gpc,
                   disp, wire, command_lock, move_request, videoVars>>

\* the body of stop, on the caller's thread or on stop_async's thread:
\* ptz.Stop(self.stop_request) in try/except
FastStopSend(i) ==
    /\ impl = "fast"
    /\ Pending(i) /\ tickets[i].kind = "stop"
    /\ \E o \in Outcomes : Transmit(i, o) /\ Finish(i, Caught(o))
    /\ UNCHANGED <<impl, camera, is_connected, video_thread, status, ptz_speed, gpc,
                   disp, command_lock, move_request, videoVars>>

\* JennovCameraFast.goto_preset
FastGotoPreset(c, speed) ==
    /\ impl = "fast" /\ ~Busy(c) /\ Len(tickets) < MaxCalls
    /\ goto_preset(speed)
    /\ UNCHANGED <<impl, camera, is_connected, video_thread, status, ptz_speed, gpc,
                   disp, wire, command_lock, move_request, videoVars>>

\* ------------------------------------------------------------ SpecCmd
\* VideoThread.__init__
VideoConstructed ==
    /\ vpc = "open" /\ cap = "none" /\ consecutive_failures = 0 /\ frame = 0
    /\ writing = 0
    /\ captured = 0 /\ emitted = <<>> /\ displayed = 0 /\ gap = "none"
    /\ run_flag = TRUE /\ recording = FALSE /\ video_writer = 0
    /\ recording_filename = 0 /\ sinks = <<>>
    /\ rpc = "idle" /\ inStop = FALSE /\ result = <<"none">>

\* CameraGUI.__init__; for the Fast class, the state after its constructor
CmdConstructed ==
    /\ camera = 0 /\ is_connected = FALSE /\ video_thread = FALSE
    /\ status = "none" /\ ptz_speed = InitPtzSpeed /\ gpc = "idle"
    /\ disp = <<>> /\ tickets = <<>> /\ wire = <<>>
    /\ command_lock = 0 /\ move_request = NoVel

\* the GUI after toggle_connection has connected and started the thread
CmdConnected ==
    /\ impl = "ultra"
    /\ camera = 1 /\ is_connected = TRUE /\ video_thread = TRUE
    /\ status = "connected" /\ ptz_speed = InitPtzSpeed /\ gpc = "idle"
    /\ disp = <<[ok |-> TRUE, keep_alive_active |-> TRUE, session |-> "open", ka |-> "test",
                 del |-> "no", late |-> 0] @@ Attrs(TRUE)>>
    /\ tickets = <<>> /\ wire = <<>>
    /\ command_lock = 0 /\ move_request = NoVel

InitCmd == impl \in {"ultra", "fast"} /\ CmdConstructed /\ VideoConstructed

NextCmd ==
    \/ ToggleConnection
    \/ \E d \in DirSample : StartMove(d)
    \/ StopMove
    \/ \E p \in PresetSample : GotoPreset(p)
    \/ GuiReturn
    \/ \E i \in 1..Len(tickets) : SendRaw(i)
    \/ \E i \in 1..Len(tickets) : PresetSend(i)
    \/ \E k \in 1..Len(disp) : KeepAliveTest(k)
    \/ \E k \in 1..Len(disp) : KeepAliveProbe(k)
    \/ \E k \in 1..Len(disp) : KeepAliveCaught(k)
    \/ \E c \in Callers, vel \in VelSample : FastMove(c, vel)
    \/ \E i \in 1..Len(tickets) : SendMoveCommand(i)
    \/ \E c \in Callers, d \in DirSample : FastMoveFast(c, d, InitPtzSpeed)
    \/ \E i \in 1..Len(tickets) : FastMoveFastSend(i)
    \/ \E c \in Callers : FastStop(c)
    \/ \E c \in Callers : FastStopAsync(c)
    \/ \E i \in 1..Len(tickets) : FastStopSend(i)
    \/ \E c \in Callers : FastGotoPreset(c, PresetSpeed)

SpecCmd == InitCmd /\ [][NextCmd]_vars

\* ------------------------------------------------------------ SpecUltra
\* One JennovCameraUltra object with an owner that also shuts it down.
\* Nothing in camera_gui.py calls __del__, and the collector cannot while
\* the keep-alive thread runs (the thread's target is a bound method of the
\* object); here the owner calls it, as a script using the class would.
NextUltra ==
    \/ \E d \in DirSample : StartMove(d)
    \/ StopMove
    \/ GuiReturn
    \/ \E i \in 1..Len(tickets) : SendRaw(i)
    \/ KeepAliveTest(1)
    \/ KeepAliveProbe(1)
    \/ KeepAliveCaught(1)
    \/ DelFlag(1)
    \/ DelClose(1)

\* the keep-alive thread and the owner inside __del__ keep being scheduled;
\* the 30 s sleep ends
InitUltra == CmdConnected /\ VideoConstructed

SpecUltra ==
    /\ InitUltra /\ [][NextUltra]_vars
    /\ WF_vars(KeepAliveTest(1))
    /\ WF_vars(KeepAliveProbe(1))
    /\ WF_vars(KeepAliveCaught(1))
    /\ WF_vars(DelClose(1))

\* -------------------------------------------------------------- SpecVel
\* Callers that use the dispatcher API directly, as test_ultra_performance.py
\* does, with every direction and magnitudes of [0, 1]; the calls and their
\* senders only.
\* JennovCameraUltra.move_instant(direction, speed)
MoveInstant(d, speed) ==
    /\ impl = "ultra" /\ Len(tickets) < MaxCalls
    /\ move_instant(d, speed)
    /\ UNCHANGED <<impl, camera, is_connected, video_thread, status, ptz_speed, gpc,
                   disp, wire, command_lock, move_request, videoVars>>

InitVel == (CmdConnected \/ (impl = "fast" /\ CmdConstructed)) /\ VideoConstructed

NextVel ==
    \/ \E d \in Directions, m \in MagSample : MoveInstant(d, m)
    \/ \E i \in 1..Len(tickets) : SendRaw(i)
    \/ \E c \in Callers, d \in Directions, m \in MagSample : FastMoveFast(c, d, m)
    \/ \E i \in 1..Len(tickets) : FastMoveFastSend(i)

SpecVel == InitVel /\ [][NextVel]_vars

\* ---------------------------------------------------------- SpecSession
\* One connected JennovCameraUltra used through every dispatch entry point:
\* the GUI's move_instant / stop_instant / goto_preset calls, a direct
\* caller of move, the senders and the keep-alive loop.
\* a move that scales the row of the velocities table in place
UltraMoveInPlace(vel) ==
    /\ impl = "ultra" /\ camera # 0 /\ Len(tickets) < MaxCalls
    /\ disp' = [disp EXCEPT ![camera].velocities["left"] = vel]
    /\ Spawn("move", vel, TRUE)
    /\ UNCHANGED <<impl, camera, is_connected, video_thread, status, ptz_speed, gpc,
                   wire, command_lock, move_request, videoVars>>

\* JennovCameraUltra.move(pan_speed, tilt_speed, zoom_speed): formats its
\* own envelope when pan or tilt is set, else when zoom is set, else nothing
UltraMove(vel) ==
    /\ impl = "ultra" /\ camera # 0 /\ Len(tickets) < MaxCalls
    /\ IF vel[1] # 0 \/ vel[2] # 0
       THEN Spawn("move", vel, TRUE)
       ELSE IF vel[3] # 0
            THEN Spawn("move", <<0, 0, vel[3]>>, TRUE)
            ELSE UNCHANGED tickets
    /\ UNCHANGED <<impl, camera, is_connected, video_thread, status, ptz_speed, gpc,
                   disp, wire, command_lock, move_request, videoVars>>

NextSession ==
    \/ \E d \in DirSample : StartMove(d)
    \/ StopMove
    \/ \E p \in PresetSample : GotoPreset(p)
    \/ GuiReturn
    \/ \E vel \in MoveSample : UltraMove(vel)
    \/ \E i \in 1..Len(tickets) : SendRaw(i)
    \/ \E i \in 1..Len(tickets) : PresetSend(i)
    \/ KeepAliveTest(1)
    \/ KeepAliveProbe(1)
    \/ KeepAliveCaught(1)

InitSession == CmdConnected /\ VideoConstructed

SpecSession == InitSession /\ [][NextSession]_vars

\* ---------------------------------------------------------- SpecConnect
\* The GUI across connect / disconnect cycles: the Connect button, the stop
\* handler and its senders, and the keep-alive loop of every dispatcher the
\* program has constructed.
InitConnect == impl = "ultra" /\ CmdConstructed /\ VideoConstructed

NextConnect ==
    \/ toggle_connection(MaxCycles)
    \/ StopMove
    \/ GuiReturn
    \/ \E i \in 1..Len(tickets) : SendRaw(i)
    \/ \E k \in 1..Len(disp) : KeepAliveTest(k)
    \/ \E k \in 1..Len(disp) : KeepAliveProbe(k)
    \/ \E k \in 1..Len(disp) : KeepAliveCaught(k)

SpecConnect == InitConnect /\ [][NextConnect]_vars

\* --------------------------------------------------------- VideoThread
threadVars == <<vpc, cap, consecutive_failures, frame, writing, captured, emitted, gap>>
callerVars == <<rpc, inStop, result>>
recVars == <<recording, video_writer, recording_filename, sinks>>

\* run going into its loop without looking at isOpened
VOpenNoCheck(ok) ==
    /\ vpc = "open"
    /\ UNCHANGED writing
    /\ cap' = IF ok THEN "open" ELSE "unopened"
    /\ vpc' = "loop"
    /\ UNCHANGED <<consecutive_failures, frame, captured, emitted, gap, displayed,
                   run_flag, recVars, callerVars, cmdVars>>

\* run: cap = cv2.VideoCapture(...); if not cap.isOpened(): return
VOpen(ok) ==
    /\ vpc = "open"
    /\ UNCHANGED writing
    /\ cap' = IF ok THEN "open" ELSE "unopened"
    /\ vpc' = IF ok THEN "loop" ELSE "failed"
    /\ UNCHANGED <<consecutive_failures, frame, captured, emitted, gap, displayed,
                   run_flag, recVars, callerVars, cmdVars>>

\* a good read that leaves the failure counter as it is
VReadOkNoReset ==
    /\ vpc = "loop" /\ run_flag
    /\ UNCHANGED writing
    /\ cap = "open" /\ captured < MaxFrames
    /\ captured' = captured + 1
    /\ frame' = captured + 1
    /\ gap' = IF consecutive_failures > 0 THEN "fails" ELSE "none"
    /\ vpc' = "emit"
    /\ UNCHANGED <<cap, consecutive_failures, emitted, displayed, run_flag, recVars,
                   callerVars, cmdVars>>

\* run: while self._run_flag: ret, frame = cap.read() with ret true
VReadOk ==
    /\ vpc = "loop" /\ run_flag
    /\ UNCHANGED writing
    /\ cap = "open" /\ captured < MaxFrames
    /\ captured' = captured + 1
    /\ frame' = captured + 1
    /\ consecutive_failures' = 0
    /\ gap' = IF consecutive_failures > 0 THEN "fails" ELSE "none"
    /\ vpc' = "emit"
    /\ UNCHANGED <<cap, emitted, displayed, run_flag, recVars, callerVars, cmdVars>>

\* a loop that reconnects on the first failed read
VReadFailEager ==
    /\ vpc = "loop" /\ run_flag
    /\ UNCHANGED writing
    /\ consecutive_failures' = consecutive_failures + 1
    /\ UNCHANGED gap
    /\ vpc' = "reconnect"
    /\ UNCHANGED <<cap, frame, captured, emitted, displayed, run_flag, recVars,
                   callerVars, cmdVars>>

\* run: while self._run_flag: cap.read() with ret false; count it; below
\* max_failures sleep 0.1 s and go round, else take the reconnect branch
VReadFail ==
    /\ vpc = "loop" /\ run_flag
    /\ UNCHANGED writing
    /\ consecutive_failures' = consecutive_failures + 1
    /\ UNCHANGED gap
    /\ vpc' = IF consecutive_failures + 1 >= max_failures THEN "reconnect" ELSE "loop"
    /\ UNCHANGED <<cap, frame, captured, emitted, displayed, run_flag, recVars,
                   callerVars, cmdVars>>

\* reconnect branch: cap.release(); time.sleep(1)
VReconnectRelease ==
    /\ vpc = "reconnect"
    /\ UNCHANGED writing
    /\ cap' = "released"
    /\ vpc' = "reopen"
    /\ UNCHANGED <<consecutive_failures, frame, captured, emitted, gap, displayed,
                   run_flag, recVars, callerVars, cmdVars>>

\* a reconnect branch that gives up when the reopen fails
VReopenGiveUp(ok) ==
    /\ vpc = "reopen"
    /\ UNCHANGED writing
    /\ cap' = IF ok THEN "open" ELSE "unopened"
    /\ consecutive_failures' = 0
    /\ vpc' = IF ok THEN "loop" ELSE "done"
    /\ UNCHANGED <<frame, captured, emitted, gap, displayed, run_flag, recVars,
                   callerVars, cmdVars>>

\* reconnect branch: cap = cv2.VideoCapture(...); consecutive_failures = 0
\* (isOpened is not looked at)
VReopen(ok) ==
    /\ vpc = "reopen"
    /\ UNCHANGED writing
    /\ cap' = IF ok THEN "open" ELSE "unopened"
    /\ consecutive_failures' = 0
    /\ vpc' = "loop"
    /\ UNCHANGED <<frame, captured, emitted, gap, displayed, run_flag, recVars,
                   callerVars, cmdVars>>

\* an emit that hands the frame over twice
VEmitTwice ==
    /\ vpc = "emit"
    /\ UNCHANGED writing
    /\ emitted' = Append(Append(emitted, frame), frame)
    /\ gap' = "none"
    /\ vpc' = "route"
    /\ UNCHANGED <<cap, consecutive_failures, frame, captured, displayed, run_flag,
                   recVars, callerVars, cmdVars>>

\* run: self.change_pixmap_signal.emit(frame)
VEmit ==
    /\ vpc = "emit"
    /\ UNCHANGED writing
    /\ emitted' = Append(emitted, frame)
    /\ gap' = "none"
    /\ vpc' = "route"
    /\ UNCHANGED <<cap, consecutive_failures, frame, captured, displayed, run_flag,
                   recVars, callerVars, cmdVars>>

\* run: if self.recording ...
VRouteRecording ==
    /\ vpc = "route"
    /\ UNCHANGED writing
    /\ vpc' = IF recording THEN "route_writer" ELSE "loop"
    /\ UNCHANGED <<cap, consecutive_failures, frame, captured, emitted, gap, displayed,
                   run_flag, recVars, callerVars, cmdVars>>

\* run: ... and self.video_writer is not None
VRouteWriter ==
    /\ vpc = "route_writer"
    /\ UNCHANGED writing
    /\ vpc' = IF video_writer # 0 THEN "write" ELSE "loop"
    /\ UNCHANGED <<cap, consecutive_failures, frame, captured, emitted, gap, displayed,
                   run_flag, recVars, callerVars, cmdVars>>

\* run's locals (consecutive_failures, frame) are not used after the loop
LocalsDead == consecutive_failures' = 0 /\ frame' = 0 /\ gap' = "none"

\* run: self.video_writer.write(frame): the attribute is read again; on None
\* the call raises, and nothing in run catches it.  A writer that is not open
\* (never opened, or already released) takes no frame and returns at once;
\* on an open one the call is entered (cv2 gives up the GIL inside it).
VWrite ==
    /\ vpc = "write"
    /\ IF video_writer = 0
       THEN vpc' = "crashed" /\ LocalsDead /\ UNCHANGED writing
       ELSE /\ IF sinks[video_writer].state = "open"
               THEN vpc' = "writing" /\ writing' = video_writer
               ELSE vpc' = "loop" /\ UNCHANGED writing
            /\ UNCHANGED <<consecutive_failures, frame, gap>>
    /\ UNCHANGED <<cap, captured, emitted, displayed, run_flag, recVars, callerVars,
                   cmdVars>>

\* what a write(frame) call in progress can come to: on a writer still open
\* the frame is appended or the call raises; on a writer that release() was
\* called on meanwhile (two threads inside one cv2.VideoWriter, which has no
\* lock: a data race) the frame is appended, is lost, or the call fails
WriteOutcomes(w) ==
    IF sinks[w].state = "open" THEN {"written", "raises"}
    ELSE {"written", "lost", "raises"}

\* run: self.video_writer.write(frame) returns, or raises (not caught in run)
VWriteReturn(o) ==
    /\ vpc = "writing" /\ o \in WriteOutcomes(writing)
    /\ writing' = 0
    /\ IF o = "raises"
       THEN vpc' = "crashed" /\ LocalsDead /\ UNCHANGED sinks
       ELSE /\ vpc' = "loop"
            /\ sinks' = IF o = "written"
                        THEN [sinks EXCEPT ![writing].frames = Append(@, frame)]
                        ELSE sinks
            /\ UNCHANGED <<consecutive_failures, frame, gap>>
    /\ UNCHANGED <<cap, captured, emitted, displayed, run_flag, recording,
                   video_writer, recording_filename, callerVars, cmdVars>>

\* run: the while test fails; cap.release()
VExit ==
    /\ vpc = "loop" /\ ~run_flag
    /\ UNCHANGED writing
    /\ cap' = "released"
    /\ vpc' = "exit_test"
    /\ LocalsDead
    /\ UNCHANGED <<captured, emitted, displayed, run_flag, recVars, callerVars, cmdVars>>

\* run: if self.video_writer is not None
VExitTest ==
    /\ vpc = "exit_test"
    /\ UNCHANGED writing
    /\ vpc' = IF video_writer # 0 THEN "exit_release" ELSE "done"
    /\ UNCHANGED <<cap, consecutive_failures, frame, captured, emitted, gap, displayed,
                   run_flag, recVars, callerVars, cmdVars>>

Release(w) == sinks' = [sinks EXCEPT ![w].state = "released", ![w].releases = @ + 1]

\* run: self.video_writer.release(): the attribute is read again
VExitRelease ==
    /\ vpc = "exit_release"
    /\ UNCHANGED writing
    /\ IF video_writer = 0
       THEN vpc' = "crashed" /\ UNCHANGED sinks
       ELSE vpc' = "done" /\ Release(video_writer)
    /\ UNCHANGED <<cap, consecutive_failures, frame, captured, emitted, gap, displayed,
                   run_flag, recording, video_writer, recording_filename, callerVars,
                   cmdVars>>

Finished == vpc \in {"failed", "done", "crashed"}

\* ------------------------------------- the slot and the recording calls
\* update_image, run by the GUI thread's event loop for each emitted frame
UpdateImage ==
    /\ rpc = "idle" /\ displayed < Len(emitted)
    /\ displayed' = displayed + 1
    /\ UNCHANGED <<threadVars, run_flag, recVars, callerVars, cmdVars>>

\* cv2.VideoWriter(filename, ...): a writer that cannot open its file is
\* returned all the same, not opened
NewSink(fn, opened) ==
    [file |-> fn, state |-> IF opened THEN "open" ELSE "unopened",
     frames |-> <<>>, releases |-> 0]

\* toggle_recording names each recording by its time stamp: the n-th
\* recording asked for gets the name n
NextFilename == Len(sinks) + 1

\* start_recording setting the flag before it assigns the writer
StartRecordingFlagFirst(fn, opened) ==
    /\ rpc = "idle"
    /\ ~recording => Len(sinks) < MaxSinks
    /\ IF recording
       THEN /\ result' = <<"False">>
            /\ rpc' = "ret"
            /\ UNCHANGED <<sinks, recording>>
       ELSE /\ sinks' = Append(sinks, NewSink(fn, opened))
            /\ recording' = TRUE
            /\ rpc' = "sr_flag"
            /\ UNCHANGED result
    /\ UNCHANGED <<threadVars, displayed, run_flag, video_writer, recording_filename,
                   inStop, cmdVars>>

\* start_recording without the test of self.recording
StartRecordingNoTest(fn, opened) ==
    /\ rpc = "idle" /\ Len(sinks) < MaxSinks
    /\ sinks' = Append(sinks, NewSink(fn, opened))
    /\ video_writer' = Len(sinks) + 1
    /\ rpc' = "sr_flag"
    /\ UNCHANGED <<threadVars, displayed, run_flag, recording, recording_filename,
                   inStop, result, cmdVars>>

\* start_recording: if not self.recording: self.video_writer =
\* cv2.VideoWriter(filename, ...) ... else: return False
StartRecording(fn, opened) ==
    /\ rpc = "idle"
    /\ ~recording => Len(sinks) < MaxSinks
    /\ IF recording
       THEN /\ result' = <<"False">>
            /\ rpc' = "ret"
            /\ UNCHANGED <<sinks, video_writer>>
       ELSE /\ sinks' = Append(sinks, NewSink(fn, opened))
            /\ video_writer' = Len(sinks) + 1
            /\ rpc' = "sr_flag"
            /\ UNCHANGED result
    /\ UNCHANGED <<threadVars, displayed, run_flag, recording, recording_filename,
                   inStop, cmdVars>>

\* start_recording: self.recording = True
SrFlag ==
    /\ rpc = "sr_flag"
    /\ recording' = TRUE
    /\ rpc' = "sr_name"
    /\ UNCHANGED <<threadVars, displayed, run_flag, video_writer, recording_filename,
                   sinks, inStop, result, cmdVars>>

\* start_recording: self.recording_filename = filename; return True
SrName ==
    /\ rpc = "sr_name"
    /\ recording_filename' = sinks[video_writer].file
    /\ result' = <<"True">>
    /\ rpc' = "ret"
    /\ UNCHANGED <<threadVars, displayed, run_flag, recording, video_writer, sinks,
                   inStop, cmdVars>>

\* stop_recording without the test of self.recording
StopRecordingNoTest ==
    /\ rpc \in {"idle", "stop_rec"}
    /\ recording' = FALSE
    /\ IF video_writer # 0
       THEN rpc' = "st_release" /\ UNCHANGED result
       ELSE /\ rpc' = IF inStop THEN "wait" ELSE "ret"
            /\ result' = IF inStop THEN result ELSE <<"file", recording_filename>>
    /\ UNCHANGED <<threadVars, displayed, run_flag, video_writer, recording_filename,
                   sinks, inStop, cmdVars>>

\* stop_recording: if self.recording: self.recording = False; if
\* self.video_writer is not None ... ; return self.recording_filename
\* else: return None
StopRecording ==
    /\ rpc \in {"idle", "stop_rec"}
    /\ IF recording
       THEN /\ recording' = FALSE
            /\ IF video_writer # 0
               THEN rpc' = "st_release" /\ UNCHANGED result
               ELSE /\ rpc' = IF inStop THEN "wait" ELSE "ret"
                    /\ result' = IF inStop THEN result ELSE <<"file", recording_filename>>
       ELSE /\ result' = <<"None">>
            /\ rpc' = "ret"
            /\ UNCHANGED recording
    /\ UNCHANGED <<threadVars, displayed, run_flag, video_writer, recording_filename,
                   sinks, inStop, cmdVars>>

\* stop_recording: self.video_writer.release()
StRelease ==
    /\ rpc = "st_release"
    /\ Release(video_writer)
    /\ rpc' = "st_none"
    /\ UNCHANGED <<threadVars, displayed, run_flag, recording, video_writer,
                   recording_filename, inStop, result, cmdVars>>

\* stop_recording: self.video_writer = None; return self.recording_filename
\* (stop ignores the value and goes on to wait)
StNone ==
    /\ rpc = "st_none"
    /\ video_writer' = 0
    /\ rpc' = IF inStop THEN "wait" ELSE "ret"
    /\ result' = IF inStop THEN result ELSE <<"file", recording_filename>>
    /\ UNCHANGED <<threadVars, displayed, run_flag, recording, recording_filename,
                   sinks, inStop, cmdVars>>

\* the caller of start_recording / stop_recording takes the returned value
CallerReturn ==
    /\ rpc = "ret"
    /\ rpc' = "idle"
    /\ result' = <<"none">>
    /\ UNCHANGED <<threadVars, displayed, run_flag, recVars, inStop, cmdVars>>

\* stop: self._run_flag = False; if self.recording: (stop_recording) else wait
Stop ==
    /\ rpc = "idle"
    /\ run_flag' = FALSE
    /\ inStop' = TRUE
    /\ rpc' = IF recording THEN "stop_rec" ELSE "wait"
    /\ UNCHANGED <<threadVars, displayed, recVars, result, cmdVars>>

\* stop: self.wait() returns once run has finished
StopWait ==
    /\ rpc = "wait" /\ Finished
    /\ inStop' = FALSE
    /\ rpc' = "idle"
    /\ UNCHANGED <<threadVars, displayed, run_flag, recVars, result, cmdVars>>

\* ---------------------------------------------------------- SpecVideo
InitVideo == CmdConnected /\ VideoConstructed

VideoThreadStep ==
    \/ \E ok \in BOOLEAN : VOpen(ok)
    \/ VReadOk
    \/ VReadFail
    \/ VReconnectRelease
    \/ \E ok \in BOOLEAN : VReopen(ok)
    \/ VEmit
    \/ VRouteRecording
    \/ VRouteWriter
    \/ VWrite
    \/ \E o \in {"written", "lost", "raises"} : VWriteReturn(o)
    \/ VExit
    \/ VExitTest
    \/ VExitRelease

CallerStep ==
    \/ \E opened \in BOOLEAN : StartRecording(NextFilename, opened)
    \/ SrFlag
    \/ SrName
    \/ StopRecording
    \/ StRelease
    \/ StNone
    \/ CallerReturn
    \/ Stop
    \/ StopWait
    \/ UpdateImage

NextVideo == VideoThreadStep \/ CallerStep

SpecVideo == InitVideo /\ [][NextVideo]_vars

\* The video thread is an OS thread: it keeps being scheduled (WF).  The
\* transport recovers: a read, and a reopen, that is tried again and again
\* eventually succeeds (SF).
SpecVideoLive ==
    /\ InitVideo /\ [][NextVideo]_vars
    /\ WF_vars(VideoThreadStep)
    /\ SF_vars(VReadOk)
    /\ SF_vars(VReopen(TRUE))

\* ============================================================== claims
Tickets == 1..Len(tickets)
MoveInFlight == \E i \in Tickets : Pending(i) /\ tickets[i].kind = "move"

\* C1: move_instant, stop_instant and goto_preset return to the caller right
\* after handing the request to a background sender: whenever the GUI thread
\* is inside such a call its return step is enabled, whatever the senders do,
\* and an idle GUI thread can always issue the next call.
C1_ReturnsWithoutWaiting ==
    /\ gpc = "ret" => ENABLED GuiReturn
    /\ (impl = "ultra" /\ gpc = "idle" /\ Len(tickets) < MaxCalls) =>
          /\ \A d \in DirSample : ENABLED StartMove(d)
          /\ ENABLED StopMove
          /\ \A p \in PresetSample : ENABLED GotoPreset(p)

\* the caller is inside move_instant while that call's send is still pending
\* and an earlier send is pending too
C1_Witness ==
    /\ gpc = "ret" /\ Cardinality(InFlight) = MaxCalls
    /\ Last(tickets).kind = "move" /\ wire = <<>>

\* C2: after move_instant calls followed by one stop_instant call, once every
\* send has completed (here: successfully), the last envelope the device
\* received is the stop envelope.
MovesThenStop ==
    /\ Len(tickets) >= 1 /\ Last(tickets).kind = "stop"
    /\ \A i \in 1..(Len(tickets) - 1) : tickets[i].kind = "move"

C2_LastEnvelopeIsStop ==
    (impl = "ultra" /\ MovesThenStop /\ \A i \in Tickets : tickets[i].status = "sent")
        => Last(wire).kind = "stop"

\* C3: a stop is never blocked by a pending move: while a move send is in
\* flight (in the Fast class: also while move_fast holds command_lock), an
\* idle caller can issue a stop, and every issued stop can be sent.
C3_StopNotBlocked ==
    MoveInFlight =>
        /\ (impl = "ultra" /\ gpc = "idle" /\ Len(tickets) < MaxCalls) => ENABLED StopMove
        /\ \A i \in Tickets :
              (impl = "ultra" /\ Pending(i) /\ tickets[i].kind = "stop") => ENABLED SendRaw(i)
        /\ \A c \in Callers :
              (impl = "fast" /\ ~Busy(c) /\ Len(tickets) < MaxCalls) =>
                  ENABLED FastStop(c) /\ ENABLED FastStopAsync(c)
        /\ \A i \in Tickets :
              (impl = "fast" /\ Pending(i) /\ tickets[i].kind = "stop") => ENABLED FastStopSend(i)

\* a stop went out while move_fast still held the lock for its pending send
C3_Witness ==
    /\ impl = "fast" /\ command_lock # 0
    /\ \E i \in Tickets : Pending(i) /\ tickets[i].kind = "move" /\ tickets[i].by = command_lock
    /\ wire # <<>> /\ Last(wire).kind = "stop"

\* C4: a transport failure of a move or stop send is discarded in the sender:
\* each call makes at most one transmission attempt, its sender never ends
\* with an uncaught error, the failing step changes nothing of the caller,
\* and afterwards calls can still be issued and sent.
SomeDropped == \E i \in Tickets : tickets[i].status = "dropped"
C4_FailureDiscarded ==
    /\ [](\A i \in Tickets :
            tickets[i].kind \in {"move", "stop"} =>
                tickets[i].attempts <= 1 /\ tickets[i].status # "crashed")
    /\ [](SomeDropped =>
            /\ (impl = "ultra" /\ gpc = "idle" /\ camera # 0 /\ Len(tickets) < MaxCalls) =>
                  ENABLED StopMove /\ \A d \in DirSample : ENABLED StartMove(d)
            /\ \A i \in Tickets :
                  (impl = "ultra" /\ Pending(i) /\ tickets[i].kind \in {"move", "stop"}) =>
                      ENABLED SendRaw(i)
            /\ \A i \in Tickets :
                  (impl = "fast" /\ Pending(i) /\ tickets[i].kind = "move" /\ tickets[i].by = 0) =>
                      ENABLED SendMoveCommand(i))
    /\ [][(\E i \in Tickets : Pending(i) /\ tickets'[i].status = "dropped") =>
            UNCHANGED <<camera, is_connected, video_thread, status, gpc, disp>>]_vars

\* a send failed and a call issued after that failure was sent
C4_Witness ==
    \E i, j \in Tickets :
        /\ i < j /\ tickets[i].status = "dropped" /\ tickets[j].status = "sent"
        /\ tickets[i].kind = "move" /\ wire = <<Envelope(j)>>

\* C5: no command without an established session: a failed constructor is
\* reported to the connecting caller at once, leaves no dispatcher object,
\* no session and no keep-alive loop of its own, and a directional move
\* requested afterwards does nothing.
C5_NoCommandWithoutSession ==
    /\ [](impl = "ultra" =>
            /\ \A k \in 1..Len(disp) :
                  ~disp[k].ok =>
                      /\ disp[k].ka = "none" /\ disp[k].session = "none"
                      /\ ~disp[k].keep_alive_active
                      /\ camera # k
                      /\ \A i \in Tickets : tickets[i].cam # k
            /\ camera # 0 => camera \in 1..Len(disp) /\ disp[camera].ok
            /\ \A i \in Tickets : tickets[i].cam \in 1..Len(disp) /\ disp[tickets[i].cam].ok
            /\ Len(wire) <= Len(tickets))
    /\ [][(Len(disp') > Len(disp) /\ ~Last(disp').ok) =>
            (status' = "failed" /\ camera' = 0 /\ ~is_connected' /\ ~video_thread')]_vars
    /\ [][(gpc = "idle" /\ gpc' = "ret" /\ camera = 0) => UNCHANGED <<tickets, wire>>]_vars

\* start_move has returned after the connection failed
C5_Witness ==
    /\ impl = "ultra" /\ status = "failed" /\ gpc = "ret"
    /\ Len(disp) >= 1 /\ ~Last(disp).ok /\ tickets = <<>> /\ wire = <<>>

\* C6: the number of sender threads in flight stays below a bound that does
\* not grow with the number of calls: in a burst of MaxCalls calls, at
\* least one send has finished before the last one is started.
C6_InFlightBounded == Cardinality(InFlight) < MaxCalls

\* C7: after N consecutive failed reads, 0 < N < max_failures, and then a
\* good read, the loop has not been in the reconnect branch (the capture is
\* neither released nor reopened), the good read sets the counter to 0, and
\* every frame read is emitted, none skipped.
C7_StallBelowThreshold ==
    /\ [](vpc \in {"reconnect", "reopen"} => consecutive_failures = max_failures)
    /\ [](vpc = "loop" => consecutive_failures < max_failures)
    /\ [][(consecutive_failures' = consecutive_failures + 1
              /\ consecutive_failures' < max_failures)
            => (cap' = cap /\ vpc' = "loop")]_vars
    /\ [][captured' = captured + 1
            => (consecutive_failures' = 0 /\ cap' = cap /\ vpc' = "emit"
                /\ frame' = captured')]_vars
    /\ [][vpc = "emit" /\ vpc' # "emit" => emitted' = Append(emitted, captured)]_vars

\* a frame read right after a stall of failed reads, between two frames
C7_Witness ==
    /\ vpc = "emit" /\ gap = "fails" /\ cap = "open"
    /\ captured = 2 /\ emitted = <<1>> /\ consecutive_failures = 0

\* C8: the 30th consecutive failed read takes the loop into the reconnect
\* branch, which releases the capture and opens it again; failed reads never
\* end the loop while cancellation has not been asked for; and, the thread
\* being scheduled and the transport recovering, frames are emitted again.
C8_ReconnectAndResume ==
    /\ [][(consecutive_failures # max_failures /\ consecutive_failures' = max_failures)
            => vpc' = "reconnect"]_vars
    /\ [][vpc = "reconnect" /\ vpc' # "reconnect"
            => (vpc' = "reopen" /\ cap' = "released")]_vars
    /\ [][vpc = "reopen" /\ vpc' # "reopen"
            => (vpc' = "loop" /\ cap' \in {"open", "unopened"})]_vars
    /\ [](vpc \in {"exit_test", "exit_release", "done"} => ~run_flag)
    /\ [][consecutive_failures' > consecutive_failures
            => vpc' \in {"loop", "reconnect"}]_vars
    /\ (vpc = "reconnect" /\ captured < MaxFrames) ~> (vpc = "emit" \/ ~run_flag)

\* frames were emitted, then the 30th failed read came and the capture was
\* released; the source has more frames
C8_Witness ==
    /\ vpc = "reopen" /\ cap = "released" /\ consecutive_failures = max_failures
    /\ captured = 1 /\ emitted = <<1>> /\ run_flag

\* C9: the frames emitted are exactly the frames read, each once, in the
\* order read (frame n is the n-th read), and the slot has handled a prefix
\* of them.
C9_InOrderExactlyOnce ==
    /\ \A i \in 1..Len(emitted) : emitted[i] = i
    /\ Len(emitted) = captured - (IF vpc = "emit" THEN 1 ELSE 0)
    /\ displayed <= Len(emitted)

\* all frames of the source were emitted and handled, the last after a stall
C9_Witness ==
    /\ Len(emitted) = MaxFrames /\ displayed = MaxFrames /\ captured = MaxFrames
    /\ vpc = "loop" /\ consecutive_failures > 0 /\ cap = "open"

\* C10: start_recording while recording is active returns False, creates
\* no writer and leaves video_writer, recording and recording_filename as
\* they are; at most one writer is open and unreleased at any time.
LiveSinks == {w \in 1..Len(sinks) : sinks[w].state # "released"}
C10_StartWhileRecordingNoop ==
    /\ [](Cardinality(LiveSinks) <= 1)
    /\ [][(recording /\ \E opened \in BOOLEAN : StartRecording(NextFilename, opened))
            => (result' = <<"False">> /\ rpc' = "ret" /\ UNCHANGED recVars)]_vars

\* the second start_recording has returned False; the first recording goes on
C10_Witness ==
    /\ recording /\ result = <<"False">> /\ rpc = "ret"
    /\ NextFilename = 2 /\ video_writer = 1 /\ recording_filename = 1
    /\ sinks[1].state = "open" /\ sinks[1].frames # <<>>

\* C11: stop_recording called while no recording is active returns None,
\* releases no writer and leaves recording, video_writer, recording_filename
\* and every writer as they are.
C11_StopWhileIdleNoop ==
    [][(~recording /\ StopRecording)
        => (result' = <<"None">> /\ rpc' = "ret" /\ UNCHANGED recVars)]_vars

\* a second stop_recording, after a recording was made and stopped, has
\* returned None; the writer of that recording was released once
C11_Witness ==
    /\ ~recording /\ result = <<"None">> /\ rpc = "ret" /\ video_writer = 0
    /\ Len(sinks) = 1 /\ sinks[1].releases = 1 /\ recording_filename = 1

\* C12: once a writer has been released no frame is appended to it: in no
\* step does the content of a released writer grow, whatever the
\* interleaving of stop_recording with the thread's routing of a frame.
C12_NoAppendAfterRelease ==
    [][\A w \in 1..Len(sinks) :
          sinks[w].state = "released" => sinks'[w].frames = sinks[w].frames]_vars

\* C13: the content of every writer is a run of consecutive frames, each
\* once, in the order read, all of them frames that were emitted; no frame
\* is in two writers; and while recording goes on into an open writer that
\* has begun to take frames, at the top of the loop the last frame read is
\* the last frame written (none skipped).
Contiguous(fs) == \A i \in 1..Len(fs) : fs[i] = fs[1] + i - 1
C13_AppendedOnceInOrder ==
    /\ \A w \in 1..Len(sinks) :
          /\ Contiguous(sinks[w].frames)
          /\ \A i \in 1..Len(sinks[w].frames) :
                \E j \in 1..Len(emitted) : emitted[j] = sinks[w].frames[i]
    /\ \A w1, w2 \in 1..Len(sinks) :
          w1 # w2 => \A i \in 1..Len(sinks[w1].frames), j \in 1..Len(sinks[w2].frames) :
                        sinks[w1].frames[i] # sinks[w2].frames[j]
    /\ (vpc = "loop" /\ recording /\ video_writer # 0
          /\ sinks[video_writer].state = "open" /\ sinks[video_writer].frames # <<>>)
        => Last(sinks[video_writer].frames) = captured

\* C14: after __del__ has returned the keep-alive loop issues no further
\* probe, and it ends.
C14_ShutdownCancelsKeepAlive ==
    /\ [](disp[1].late = 0)
    /\ (disp[1].del = "done") ~> (disp[1].ka = "done")

\* C15: when stop returns (run not having been ended by an error), the
\* capture has been released, or never opened, and every writer has been
\* released exactly once; a stop called again after that touches neither
\* the capture nor a writer.
C15_StopReleasesOnce ==
    /\ [][(rpc = "wait" /\ rpc' = "idle" /\ vpc # "crashed")
            => /\ cap' \in {"released", "unopened"}
               /\ \A w \in 1..Len(sinks) :
                     sinks'[w].state = "released" /\ sinks'[w].releases = 1]_vars
    /\ [][(~run_flag /\ rpc = "idle" /\ rpc' = "wait") => UNCHANGED <<cap, sinks>>]_vars

\* C16: a failed first open ends run in the state "failed": no read, no
\* frame emitted, no reconnect (the counter is untouched, the capture stays
\* as the failed open left it), and nothing the thread or its callers do
\* takes run out of that state.
C16_OpenFailureIsTerminal ==
    /\ [][(vpc = "open" /\ cap' = "unopened") => vpc' = "failed"]_vars
    /\ [](vpc = "failed" =>
            /\ captured = 0 /\ emitted = <<>> /\ displayed = 0
            /\ cap = "unopened" /\ consecutive_failures = 0)
    /\ [][vpc = "failed" => vpc' = "failed"]_vars

\* the open failed; a recording was started and stop was called after it
C16_Witness ==
    /\ vpc = "failed" /\ cap = "unopened" /\ ~run_flag /\ rpc = "idle" /\ ~inStop
    /\ Len(sinks) = 1 /\ sinks[1].state = "released" /\ sinks[1].frames = <<>>

\* C17: a write(frame) call that fails does not end the loop: whatever a
\* write call in progress comes to, run goes on at the top of its loop.
C17_WriteFailureKeepsLoop ==
    [][(vpc = "writing" /\ vpc' # "writing") => vpc' = "loop"]_vars

\* C18: a failed keep-alive probe is caught: the loop never ends with an
\* error, a probe is followed by the while test, directly or through the
\* except branch, the test with keep_alive_active true is followed by the
\* next sleep and probe, and this goes on: after a failed probe, unless the
\* flag is cleared, the loop gets to its next sleep, and every sleep ends in
\* a probe.
C18_ProbeFailureKeepsSchedule ==
    /\ [](disp[1].ka \in {"test", "sleep", "caught", "done"})
    /\ [][(disp[1].ka = "sleep" /\ disp'[1].ka # "sleep")
            => disp'[1].ka \in {"test", "caught"}]_vars
    /\ [][(disp[1].ka = "caught" /\ disp'[1].ka # "caught") => disp'[1].ka = "test"]_vars
    /\ [][(disp[1].ka = "test" /\ disp'[1].ka # "test" /\ disp[1].keep_alive_active)
            => disp'[1].ka = "sleep"]_vars
    /\ (disp[1].ka = "caught") ~> (disp[1].ka = "sleep" \/ ~disp[1].keep_alive_active)
    /\ (disp[1].ka = "sleep") ~> (disp[1].ka \in {"test", "caught"})

\* a probe has failed and was caught, the flag still set; commands were
\* sent before it
C18_Witness ==
    /\ disp[1].ka = "caught" /\ disp[1].keep_alive_active /\ disp[1].del = "no"
    /\ Len(wire) = MaxCalls

\* C19: the reconnect branch goes back to the loop, with the counter at 0,
\* only when the reopen succeeded; after a failed reopen no read is made on
\* the unopened capture (the counter is not stepped by a failed read on it).
C19_ReopenFailureStaysReconnecting ==
    /\ [][(vpc = "reopen" /\ vpc' = "loop") => cap' = "open"]_vars
    /\ [][(vpc = "reopen" /\ consecutive_failures' = 0 /\ consecutive_failures # 0)
            => cap' = "open"]_vars
    /\ [][consecutive_failures' = consecutive_failures + 1 => cap = "open"]_vars

\* C20: once _run_flag is cleared run ends, from wherever in its loop it
\* was; and when run, past its first open, ends with the flag cleared, the
\* capture has been released and the writer in video_writer, if any, has
\* been released.
C20_CancellationTerminates ==
    /\ (~run_flag) ~> Finished
    /\ [][(vpc # "open" /\ ~Finished /\ Finished' /\ ~run_flag')
            => /\ cap' = "released"
               /\ video_writer' # 0 => sinks'[video_writer'].state = "released"]_vars

\* C21: at most one frame that run has emitted is waiting for the
\* update_image slot, however slow the slot is.
C21_AtMostOneUndelivered == Len(emitted) - displayed <= 1

\* C22: the frame is routed on one reading of the recording state: the
\* step of run that calls write, after its two tests, finds a writer in
\* video_writer (never None), and run does not end there.
C22_RoutedOnOneSnapshot ==
    [][(vpc = "write" /\ vpc' # "write") => (video_writer # 0 /\ vpc' # "crashed")]_vars

\* C23: the envelope a sender transmits for a move call carries the
\* velocity computed from the arguments of the call that started the sender.
C23_OwnEnvelope ==
    [][\A i \in Tickets :
          (/\ Pending(i) /\ tickets[i].kind = "move"
           /\ tickets'[i].attempts > tickets[i].attempts
           /\ Len(wire') > Len(wire))
          => Last(wire').vel = tickets[i].vel]_vars

\* the unit vector of a direction scaled by a magnitude, and the range [-1, 1]
Axis(d) == IF d \in {"left", "right"} THEN 1 ELSE IF d \in {"up", "down"} THEN 2 ELSE 3
Sign(d) == IF d \in {"right", "up", "zoom_in"} THEN 1 ELSE -1
Scaled(d, m) == [k \in 1..3 |-> IF k = Axis(d) THEN Sign(d) * m ELSE 0]
InUnitRange(v) == \A k \in 1..3 : -10 <= v[k] /\ v[k] <= 10
\* C24: a move call with direction d and magnitude m in [0, 1] places in
\* its envelope the unit vector of d scaled by m, every component within
\* [-1, 1], and the Ultra table and the Fast lambdas give the same triple.
C24_UnitVectorScaled ==
    [][Len(tickets') > Len(tickets) => \A d \in Directions, m \in MagSample :
          /\ MoveInstant(d, m) =>
                /\ Last(tickets').vel = Scaled(d, m)
                /\ InUnitRange(Last(tickets').vel)
                /\ UltraVelocity(d, m) = FastVelocity(d, m)
          /\ (\E c \in Callers : FastMoveFast(c, d, m)) =>
                /\ move_request' = Scaled(d, m)
                /\ InUnitRange(move_request')
                /\ FastVelocity(d, m) = UltraVelocity(d, m)]_vars
\* a full-speed "down" from the table and a "zoom_out" of 0.5 have gone out
C24_Witness ==
    \/ \E i \in 1..Len(wire) : impl = "ultra" /\ wire[i] = [kind |-> "move", vel |-> <<0, -10, 0>>]
    \/ \E i \in 1..Len(wire) : impl = "fast" /\ wire[i] = [kind |-> "move", vel |-> <<0, 0, -5>>]

\* C25: a transport failure of a preset-recall request is caught in its
\* sender: no preset sender ends with an unhandled error.
C25_PresetFailureCaught ==
    \A i \in Tickets : tickets[i].kind = "preset" => tickets[i].status # "crashed"

\* C26: when the sink could not be opened, start_recording does not return
\* True and leaves recording inactive: flag not set, no sink retained.
C26_OpenFailureReported ==
    [][(rpc = "sr_name" /\ rpc' = "ret" /\ sinks[video_writer].state = "unopened")
          => (result' # <<"True">> /\ ~recording' /\ video_writer' = 0)]_vars

\* the attributes of a dispatcher that SessionState names
ReadOnlyPart(r) == [a \in DOMAIN SessionState |-> r[a]]
\* C27: no dispatch or keep-alive step changes the profile token, the PTZ
\* endpoint URL, the SOAP templates or the velocities table of a
\* JennovCameraUltra instance.
C27_SessionReadOnly ==
    [][\A k \in 1..Len(disp) : ReadOnlyPart(disp'[k]) = ReadOnlyPart(disp[k])]_vars
\* moves and a keep-alive probe have gone by and the instance holds what
\* its constructor assigned
C27_Witness ==
    /\ Len(tickets) = MaxCalls /\ \A i \in Tickets : ~Pending(i)
    /\ \E i \in Tickets : tickets[i].kind = "move" /\ tickets[i].status = "sent"
    /\ disp[1].ka = "sleep"
    /\ ReadOnlyPart(disp[1]) = SessionState

\* the counter in a state of run, and across one step of run
CounterBounds ==
    /\ 0 <= consecutive_failures
    /\ consecutive_failures <= max_failures
    /\ (vpc = "loop" => consecutive_failures < max_failures)
    /\ (vpc = "emit" => consecutive_failures = 0)
CounterSteps ==
    /\ (vpc = "loop" /\ vpc' \in {"loop", "reconnect"}
          /\ consecutive_failures' # consecutive_failures)
         => consecutive_failures' = consecutive_failures + 1
    /\ (vpc = "reopen" /\ vpc' # "reopen") => consecutive_failures' = 0
    /\ (vpc = "loop" /\ vpc' = "emit") => consecutive_failures' = 0
\* C28: at the top of each loop iteration 0 <= consecutive_failures < 30;
\* the counter never exceeds max_failures, goes up by exactly 1 per failed
\* read, and is 0 right after a successful read and after a reconnect
\* attempt.
C28_FailureCounter == []CounterBounds /\ [][CounterSteps]_vars
\* the loop top right after a reconnect attempt that followed 30 failures
C28_Witness ==
    vpc = "loop" /\ cap = "unopened" /\ consecutive_failures = 0 /\ captured > 0

\* C29: in every state, the ones inside start_recording and stop_recording
\* included, recording = True implies video_writer is not None.
C29_RecordingHasWriter == recording => video_writer # 0
\* run has seen the flag set while start_recording has not yet returned
C29_Witness ==
    recording /\ video_writer # 0 /\ rpc = "sr_name" /\ vpc = "route_writer"

\* the dispatchers whose keep-alive thread is alive, and the dispatchers the
\* GUI has dropped
LoopsAlive == {k \in 1..Len(disp) : disp[k].ka \in {"test", "sleep", "caught"}}
Dropped == {k \in 1..Len(disp) : disp[k].ok /\ k # camera}
\* C30: across connect / disconnect cycles at most one keep-alive loop is
\* active, and once the next dispatcher exists every dropped dispatcher's
\* loop has stopped and its HTTP session is closed.
C30_OneKeepAliveLoop ==
    /\ Cardinality(LoopsAlive) <= 1
    /\ camera # 0 =>
          \A k \in Dropped : disp[k].ka = "done" /\ disp[k].session = "closed"
====
